---- MODULE Spec2Model ----
(***************************************************************************)
(* KOReader vocabulary importer (vocabsieve/importer/KoreaderVocabImporter) *)
(* as a state machine: the constructor's path resolution, and getNotes as   *)
(* the sequence of its steps (scan, metadata, language filter, vocabulary   *)
(* rows, lookup history, recorder calls).                                   *)
(*                                                                          *)
(* Python strings are sequences of one-character strings, so that           *)
(* startswith, strip, "in" and splitext are computed, not assumed.          *)
(* Python's None is the one-element sequence Null, whose element is no      *)
(* character of any text.                                                   *)
(***************************************************************************)
EXTENDS Integers, Sequences, FiniteSets, TLC

VARIABLES
    \* the settings store and the file system
    koreader_reader_partition, koreader_sdcard_partition, target_language, exists,
    \* __init__'s argument and local, and the importer object
    path, saved_reader_path, ctor, main_path, sdcard_path, sd_warning,
    \* getNotes: position, pending exception, scan and language filter
    pc, exc, bookfiles, langcode, decoded, metadata, books_in_lang,
    \* getNotes: vocabulary database (nrows, row_log, note_src: bookkeeping of
    \* which row was read and what became of it)
    bookmap, count, reading_notes, row, ctx, split_out, sentence,
    nrows, row_log, note_src,
    \* getNotes: lookup history, the external recorder's call log, return value
    hist, content, d, entries, idx, rec_calls, result

ctorVars == <<koreader_reader_partition, koreader_sdcard_partition, target_language,
              exists, path, saved_reader_path, ctor, main_path, sdcard_path,
              sd_warning>>
scanVars == <<bookfiles, langcode, decoded, metadata, books_in_lang>>
vocabVars == <<bookmap, count, reading_notes, row, ctx, split_out, sentence,
               nrows, row_log, note_src>>
histVars == <<hist, content, d, entries, idx, rec_calls, result>>
vars == <<ctorVars, pc, exc, scanVars, vocabVars, histVars>>

----------------------------------------------------------------------------
(* Bounds of the model *)

\* books returned by the scan of the reader partition
MaxBooks == 2
\* books returned by the scan of the SD card partition
MaxSdBooks == 1
\* rows of the vocabulary table
MaxRows == 2
\* sentences the splitter returns for one context
MaxSent == 2
\* entries of the lookup-history log
MaxHist == 2
\* largest creation timestamp (seconds)
MaxTime == 1

----------------------------------------------------------------------------
(* Python values and string operations *)

Null == <<"<None>">>

\* bool(x) of a string or None
Truthy(x) == x # Null /\ x # <<>>

\* s.startswith(p)
StartsWith(s, p) == Len(p) <= Len(s) /\ SubSeq(s, 1, Len(p)) = p

\* s.endswith(p)
EndsWith(s, p) == Len(p) <= Len(s) /\ SubSeq(s, Len(s) - Len(p) + 1, Len(s)) = p

\* w in s, for strings
Contains(s, w) == \E i \in 0..(Len(s) - Len(w)) : SubSeq(s, i + 1, i + Len(w)) = w

\* s.removesuffix(suf)
RemoveSuffix(s, suf) ==
    IF suf # <<>> /\ EndsWith(s, suf) THEN SubSeq(s, 1, Len(s) - Len(suf)) ELSE s

IsSpace(c) == c = " "

\* s.strip()
Strip(s) ==
    LET keep == {i \in 1..Len(s) : ~IsSpace(s[i])}
    IN  IF keep = {} THEN <<>>
        ELSE LET lo == CHOOSE i \in keep : \A j \in keep : i <= j
                 hi == CHOOSE i \in keep : \A j \in keep : j <= i
             IN  SubSeq(s, lo, hi)

\* index of the last occurrence of character c in s, 0 when there is none
LastIndex(s, c) ==
    LET at == {i \in 1..Len(s) : s[i] = c}
    IN  IF at = {} THEN 0 ELSE CHOOSE i \in at : \A j \in at : j <= i

\* os.path.basename(p)
BaseName(p) == SubSeq(p, LastIndex(p, "/") + 1, Len(p))

\* os.path.splitext(p)[1]: from the last dot of the base name, when that dot
\* is not the base name's leading character
SplitExt(p) ==
    LET sep == LastIndex(p, "/")
        dot == LastIndex(p, ".")
    IN  IF dot > sep + 1 THEN SubSeq(p, dot, Len(p)) ELSE <<>>

----------------------------------------------------------------------------
(* The constructor *)

Reader == <<"/", "r">>
SdCard == <<"/", "s">>
Roots == {Reader, SdCard}

\* what a saved setting can hold, and what a caller can pass as path
SettingValues == {<<>>} \cup Roots
PathArgs == {Null, <<>>} \cup Roots

En == <<"e", "n">>
Fr == <<"f", "r">>
TargetLanguages == {En, Fr}

\* os.path.exists(p)
PathExists(p, ex) == p \in ex

\* has_saved_config: a saved reader partition that still exists
has_saved_config == Truthy(koreader_reader_partition)
                        /\ PathExists(koreader_reader_partition, exists)

\* a plausible slip: the passed path is tried first
ResolveMainPathPassedFirst(saved, path_, ex) ==
    IF Truthy(path_) /\ PathExists(path_, ex)
    THEN [ok |-> TRUE, main_path |-> path_, setting |-> path_]
    ELSE IF Truthy(saved) /\ PathExists(saved, ex)
    THEN [ok |-> TRUE, main_path |-> saved, setting |-> saved]
    ELSE [ok |-> FALSE, main_path |-> Null, setting |-> saved]

\* a plausible slip: the passed path is saved before it is validated
ResolveMainPathSaveEarly(saved, path_, ex) ==
    IF Truthy(saved) /\ PathExists(saved, ex)
    THEN [ok |-> TRUE, main_path |-> saved, setting |-> saved]
    ELSE IF Truthy(path_) /\ PathExists(path_, ex)
    THEN [ok |-> TRUE, main_path |-> path_, setting |-> path_]
    ELSE [ok |-> FALSE, main_path |-> Null,
          setting |-> IF Truthy(path_) THEN path_ ELSE saved]

\* lines 48-59: the reader partition used, and the setting afterwards; ok is
\* FALSE where the constructor raises ValueError
ResolveMainPath(saved, path_, ex) ==
    IF Truthy(saved) /\ PathExists(saved, ex)
    THEN [ok |-> TRUE, main_path |-> saved, setting |-> saved]
    ELSE IF Truthy(path_) /\ PathExists(path_, ex)
    THEN [ok |-> TRUE, main_path |-> path_, setting |-> path_]
    ELSE [ok |-> FALSE, main_path |-> Null, setting |-> saved]

\* lines 61-71: the SD card partition, and whether the warning rows are added
ResolveSdCard(saved, ex) ==
    IF Truthy(saved) /\ PathExists(saved, ex)
    THEN [sdcard_path |-> saved, warning |-> FALSE]
    ELSE [sdcard_path |-> Null, warning |-> Truthy(saved)]

\* __init__(parent, path)
Construct(path_) ==
    /\ ctor = "new"
    /\ LET r == ResolveMainPath(koreader_reader_partition, path_, exists)
           s == ResolveSdCard(koreader_sdcard_partition, exists)
       IN  /\ path' = path_
           /\ saved_reader_path' = koreader_reader_partition
           /\ koreader_reader_partition' = r.setting
           /\ IF r.ok
              THEN /\ ctor' = "ok"
                   /\ main_path' = r.main_path
                   /\ sdcard_path' = s.sdcard_path
                   /\ sd_warning' = s.warning
                   /\ pc' = "scan"
              ELSE /\ ctor' = "ValueError"
                   /\ UNCHANGED <<main_path, sdcard_path, sd_warning, pc>>
    /\ UNCHANGED <<koreader_sdcard_partition, target_language, exists, exc,
                   scanVars, vocabVars, histVars>>

\* the variable decoded before any metadata file was decoded
NoDoc == [kind |-> "unset", doc_props |-> "absent", language |-> Null, title |-> Null]

\* the row variable before any row was fetched
NoRow == [create_time |-> 0, word |-> <<>>, title_id |-> 0,
          prev_context |-> Null, next_context |-> Null, owner |-> 0]

\* getNotes' locals before the step that sets them
ScanUnset ==
    /\ bookfiles = <<>> /\ langcode = <<>> /\ decoded = NoDoc /\ metadata = <<>>
    /\ books_in_lang = <<>>

VocabUnset ==
    /\ bookmap = <<>> /\ count = 0 /\ reading_notes = <<>> /\ row = NoRow
    /\ ctx = <<>> /\ split_out = <<>> /\ sentence = <<>>
    /\ nrows = 0 /\ row_log = <<>> /\ note_src = <<>>

HistUnset ==
    /\ hist = "unread" /\ content = <<>> /\ d = <<>> /\ entries = <<>> /\ idx = 0
    /\ rec_calls = <<>> /\ result = <<>>

LocalsUnset ==
    /\ exc = "none"
    /\ ScanUnset
    /\ VocabUnset
    /\ HistUnset

\* before construction: any saved settings, any set of existing partitions
InitCtor ==
    /\ koreader_reader_partition \in SettingValues
    /\ koreader_sdcard_partition \in SettingValues
    /\ target_language \in TargetLanguages
    /\ exists \in SUBSET Roots
    /\ path = Null /\ saved_reader_path = Null
    /\ ctor = "new" /\ main_path = Null /\ sdcard_path = Null /\ sd_warning = FALSE
    /\ pc = "new"
    /\ LocalsUnset

NextCtor == \E path_ \in PathArgs : Construct(path_)

SpecCtor == InitCtor /\ [][NextCtor]_vars

----------------------------------------------------------------------------
(* getNotes: scan of the partitions and per-book metadata (lines 77-93) *)

\* sequences over S of length at most n
SeqsUpTo(S, n) == UNION {[1..k -> S] : k \in 0..n}

Letters == <<"A", "B", "C", "D", "E">>

\* the i-th book file under a partition: with an extension when i is odd,
\* without one when i is even
Book(root, i) ==
    IF i % 2 = 1 THEN root \o <<"/", Letters[i], ".", "e">>
                 ELSE root \o <<"/", Letters[i]>>

\* koreader_scandir(root) when it finds n books
ScanDir(root, n) == [i \in 1..n |-> Book(root, i)]

EnUS == <<"e", "n", "_", "U", "S">>
Languages == {En, EnUS, Fr}
Titles == {<<"A">>, <<"B">>}

\* What slpp.decode gives for a metadata file after the line and token
\* preprocessing of line 24: it raises, or returns None, a list, or a table
\* whose doc_props is absent, a string, or a table in which language and
\* title are each a string or absent (Null).
MetaDocs ==
    {[kind |-> k, doc_props |-> "absent", language |-> Null, title |-> Null] :
        k \in {"raise", "none", "list", "dict"}}
    \cup {[kind |-> "dict", doc_props |-> "str", language |-> Null, title |-> Null]}
    \cup {[kind |-> "dict", doc_props |-> "dict", language |-> l, title |-> t] :
            l \in Languages \cup {Null}, t \in Titles \cup {Null}}

\* data['doc_props'][key]: the value, or the exception the subscripts raise
DocProp(data, key) ==
    IF data.kind \in {"none", "list"} THEN [err |-> "TypeError", val |-> Null]
    ELSE IF data.doc_props = "absent" THEN [err |-> "KeyError", val |-> Null]
    ELSE IF data.doc_props = "str" THEN [err |-> "TypeError", val |-> Null]
    ELSE IF data[key] = Null THEN [err |-> "KeyError", val |-> Null]
    ELSE [err |-> "none", val |-> data[key]]

\* os.path.basename(path).removesuffix(ext)
FallbackTitle(p) == RemoveSuffix(BaseName(p), SplitExt(p))

\* getBookMetadata(path), given what decoding its metadata file gives and the
\* target_language setting: the exception that leaves it, or (booklang, booktitle).
\* slpp.decode is called before the try block, so what it raises is not caught.
\* The metadata file itself is taken to exist and to be readable.
getBookMetadata(p, data, default_lang) ==
    IF data.kind = "raise"
    THEN [exc |-> "ParseError", value |-> <<Null, Null>>]
    ELSE LET lang == DocProp(data, "language")
             title == DocProp(data, "title")
         IN  IF lang.err \in {"TypeError", "KeyError"}
                    \/ title.err \in {"TypeError", "KeyError"}
             THEN [exc |-> "none", value |-> <<default_lang, FallbackTitle(p)>>]
             ELSE [exc |-> "none", value |-> <<lang.val, title.val>>]

\* [book[1] for book in metadata if book[0].startswith(langcode)]
RECURSIVE BooksInLang(_, _)
BooksInLang(md, lc) ==
    IF md = <<>> THEN <<>>
    ELSE IF StartsWith(md[1][1], lc)
         THEN <<md[1][2]>> \o BooksInLang(Tail(md), lc)
         ELSE BooksInLang(Tail(md), lc)

\* x in lst, for a list
InList(x, lst) == \E i \in 1..Len(lst) : lst[i] = x

\* lines 77-85: both scans, and the target language read from the settings
ScanDirs ==
    /\ pc = "scan"
    /\ \E n \in 0..MaxBooks, m \in 0..MaxSdBooks :
          bookfiles' = ScanDir(main_path, n)
                         \o (IF Truthy(sdcard_path) THEN ScanDir(sdcard_path, m)
                                                    ELSE <<>>)
    /\ langcode' = target_language
    /\ pc' = "meta"
    /\ UNCHANGED <<ctorVars, exc, decoded, metadata, books_in_lang, vocabVars,
                   histVars>>

\* lines 87-88: one iteration of the metadata loop
ReadMetadata ==
    /\ pc = "meta"
    /\ Len(metadata) < Len(bookfiles)
    /\ \E data \in MetaDocs :
          LET r == getBookMetadata(bookfiles[Len(metadata) + 1], data,
                                   target_language)
          IN  /\ decoded' = data
              /\ IF r.exc = "none"
                 THEN /\ metadata' = Append(metadata, r.value)
                      /\ UNCHANGED <<pc, exc>>
                 ELSE /\ exc' = r.exc
                      /\ pc' = "raised"
                      /\ UNCHANGED metadata
    /\ UNCHANGED <<ctorVars, bookfiles, langcode, books_in_lang, vocabVars, histVars>>

\* line 90: the language filter
FilterBooks ==
    /\ pc = "meta"
    /\ Len(metadata) = Len(bookfiles)
    /\ books_in_lang' = BooksInLang(metadata, langcode)
    /\ pc' = "db"
    /\ UNCHANGED <<ctorVars, exc, bookfiles, langcode, decoded, metadata, vocabVars,
                   histVars>>

\* a constructed importer whose saved reader partition was valid; sd tells
\* whether a valid SD card partition is saved too
Constructed(sd) ==
    /\ koreader_reader_partition = Reader
    /\ koreader_sdcard_partition = (IF sd THEN SdCard ELSE <<>>)
    /\ exists = (IF sd THEN {Reader, SdCard} ELSE {Reader})
    /\ path = Null /\ saved_reader_path = Reader
    /\ ctor = "ok" /\ main_path = Reader
    /\ sdcard_path = (IF sd THEN SdCard ELSE Null)
    /\ sd_warning = FALSE

\* getNotes is entered on a constructed importer (a state SpecCtor reaches)
InitScan ==
    /\ \E sd \in BOOLEAN : Constructed(sd)
    /\ target_language \in TargetLanguages
    /\ pc = "scan"
    /\ LocalsUnset

NextScan == ScanDirs \/ ReadMetadata \/ FilterBooks

SpecScan == InitScan /\ [][NextScan]_vars

----------------------------------------------------------------------------
(* getNotes: the vocabulary database (lines 96-133) *)

\* table title(id, name) of the device's database
TitleTable == <<[id |-> 1, name |-> <<"A">>], [id |-> 2, name |-> <<"B">>]>>

\* the name of the title row with that id
TitleOf(id) == TitleTable[CHOOSE i \in 1..Len(TitleTable) : TitleTable[i].id = id].name

\* lines 102-106: id -> name of the titles whose name is in books_in_lang
BookMap(titles, books) ==
    LET keep == {i \in 1..Len(titles) : InList(titles[i].name, books)}
    IN  [id \in {titles[i].id : i \in keep} |->
            titles[CHOOSE i \in keep : titles[i].id = id].name]

\* the scanned books a database or history entry under that title can have
\* been made in: those whose detected title it is (0: a book not scanned)
Owners(md, title) ==
    LET own == {i \in 1..Len(md) : md[i][2] = title}
    IN  IF own = {} THEN {0} ELSE own

Words == {<<>>, <<"a">>}
PrevContexts == {Null, <<>>, <<"b", " ">>}
NextContexts == {Null, <<>>, <<" ", "c">>}
Sentences == {<<>>, <<"a">>, <<"b", " ", "a">>}

\* the rows table vocabulary can hold, given the scanned books' metadata
VocabRows(md) ==
    {[create_time |-> MaxTime, word |-> w, title_id |-> t,
      prev_context |-> p, next_context |-> n, owner |-> o] :
        w \in Words, t \in {1, 2}, p \in PrevContexts, n \in NextContexts,
        o \in 0..Len(md)}

\* what the splitter, an injected dependency, can return for one context
SplitOutputs == SeqsUpTo(Sentences, MaxSent)

\* line 112, a plausible slip: only the preceding context is tested
HasContextPrevOnly(prev_context, next_context) == Truthy(prev_context)

\* line 112: if prev_context and next_context
HasContext(prev_context, next_context) ==
    Truthy(prev_context) /\ Truthy(next_context)

\* line 113
Context(prev_context, word, next_context) ==
    Strip(prev_context) \o <<" ">> \o word \o <<" ">> \o Strip(next_context)

\* lines 116-119, a plausible slip: the loop stops at the first match
RECURSIVE SelectSentenceFirst(_, _)
SelectSentenceFirst(sentences, word) ==
    IF sentences = <<>> THEN <<>>
    ELSE IF Contains(sentences[1], word) THEN sentences[1]
    ELSE SelectSentenceFirst(Tail(sentences), word)

\* lines 116-119: the loop that overwrites sentence with every match, as a fold
\* from the left starting from ""
RECURSIVE SelectFrom(_, _, _)
SelectFrom(sentence_, sentences, word) ==
    IF sentences = <<>> THEN sentence_
    ELSE SelectFrom(IF Contains(sentences[1], word) THEN sentences[1] ELSE sentence_,
                    Tail(sentences), word)

SelectSentence(sentences, word) == SelectFrom(<<>>, sentences, word)

\* str(dt.fromtimestamp(t).astimezone())[:19]: the calendar fields down to the
\* second, of which the minute and the second are kept here
FormatDate(t) == <<t \div 60, t % 60>>

ReadingNote(word, sentence_, book_name, timestamp) ==
    [lookup_term |-> word, sentence |-> sentence_, book_name |-> book_name,
     date |-> FormatDate(timestamp)]

\* lines 96-108: open the database, build bookmap
BuildBookmap ==
    /\ pc = "db"
    /\ bookmap' = BookMap(TitleTable, books_in_lang)
    /\ count' = 0
    /\ reading_notes' = <<>>
    /\ pc' = "rows"
    /\ UNCHANGED <<ctorVars, exc, scanVars, row, ctx, split_out, sentence, nrows,
                   row_log, note_src, histVars>>

\* lines 109-130: one iteration of the loop over table vocabulary
VocabRow ==
    /\ pc = "rows"
    /\ nrows < MaxRows
    /\ nrows' = nrows + 1
    /\ \E r \in VocabRows(metadata) :
        /\ r.owner \in Owners(metadata, TitleOf(r.title_id))
        /\ row' = r
        /\ IF r.title_id \notin DOMAIN bookmap
           THEN /\ row_log' = Append(row_log, "not_in_lang")
                /\ UNCHANGED <<ctx, split_out, sentence, count, reading_notes,
                               note_src>>
           ELSE IF ~HasContext(r.prev_context, r.next_context)
           THEN /\ row_log' = Append(row_log, "no_context")
                /\ UNCHANGED <<ctx, split_out, sentence, count, reading_notes,
                               note_src>>
           ELSE /\ ctx' = Context(r.prev_context, r.word, r.next_context)
                /\ \E out \in SplitOutputs : split_out' = out
                /\ sentence' = SelectSentence(split_out', r.word)
                /\ IF sentence' # <<>>
                   THEN /\ count' = count + 1
                        /\ reading_notes' =
                              Append(reading_notes,
                                     ReadingNote(r.word, sentence',
                                                 bookmap[r.title_id], r.create_time))
                        /\ note_src' = Append(note_src, [n |-> nrows + 1,
                                                         owner |-> r.owner])
                        /\ row_log' = Append(row_log, "note")
                   ELSE /\ row_log' = Append(row_log, "no_sentence")
                        /\ UNCHANGED <<count, reading_notes, note_src>>
    /\ UNCHANGED <<ctorVars, pc, exc, scanVars, bookmap, histVars>>

\* the cursor is exhausted (lines 132-133 add two labels)
EndRows ==
    /\ pc = "rows"
    /\ pc' = "hist"
    /\ UNCHANGED <<ctorVars, exc, scanVars, vocabVars, histVars>>

\* Scans the language filter has been applied to: two books with different
\* titles and languages on the reader partition, or two books with the same
\* title and different languages, the second on the SD card.
Scanned ==
    {[sd |-> FALSE, bookfiles |-> ScanDir(Reader, 2),
      metadata |-> <<<<En, <<"A">>>>, <<Fr, <<"B">>>>>>],
     [sd |-> TRUE, bookfiles |-> ScanDir(Reader, 1) \o ScanDir(SdCard, 1),
      metadata |-> <<<<EnUS, <<"A">>>>, <<Fr, <<"A">>>>>>]}

\* the state in which line 96 is reached after the scan sc (a state SpecScan
\* reaches at pc = "db")
AfterScan(sc) ==
    /\ Constructed(sc.sd)
    /\ target_language \in TargetLanguages
    /\ exc = "none"
    /\ bookfiles = sc.bookfiles
    /\ langcode = target_language
    /\ decoded = [kind |-> "dict", doc_props |-> "dict",
                  language |-> sc.metadata[2][1], title |-> sc.metadata[2][2]]
    /\ metadata = sc.metadata
    /\ books_in_lang = BooksInLang(metadata, langcode)

InitVocab ==
    /\ \E sc \in Scanned : AfterScan(sc)
    /\ pc = "db"
    /\ VocabUnset
    /\ HistUnset

NextVocab == BuildBookmap \/ VocabRow \/ EndRows

SpecVocab == InitVocab /\ [][NextVocab]_vars

----------------------------------------------------------------------------
(* getNotes: the lookup history and the external recorder (lines 135-182) *)

\* What slpp.decode gives for one chunk of the history log: it raises, or
\* returns None, a string, or a table; the table's data is absent, None, a
\* list, an empty table, or a table whose first child is None, a string, or a
\* table with some of the keys word, book_title and time.
HistShape(kind, data, child, keys) ==
    [kind |-> kind, data |-> data, child |-> child, keys |-> keys,
     word |-> <<>>, book_title |-> <<>>, time |-> 0, owner |-> 0]

EntryKeys == {"word", "book_title", "time"}

Malformed ==
    {HistShape("raise", "absent", "none", {}),
     HistShape("none", "absent", "none", {}),
     HistShape("str", "absent", "none", {}),
     HistShape("dict", "absent", "none", {}),
     HistShape("dict", "none", "none", {}),
     HistShape("dict", "list", "none", {}),
     HistShape("dict", "emptydict", "none", {}),
     HistShape("dict", "dict", "none", {}),
     HistShape("dict", "dict", "str", {}),
     HistShape("dict", "dict", "dict", {"word", "book_title"})}

HistWords == {<<"a">>, <<"b">>}

\* a chunk that decodes to an entry of the expected shape
WellFormed(md) ==
    {[kind |-> "dict", data |-> "dict", child |-> "dict", keys |-> EntryKeys,
      word |-> w, book_title |-> t, time |-> MaxTime, owner |-> o] :
        w \in HistWords, t \in Titles, o \in 0..Len(md)}

HistChunks(md) ==
    Malformed \cup {c \in WellFormed(md) : c.owner \in Owners(md, c.book_title)}

\* Lines 154-157 on one decoded entry: "append", "none" (no exception, nothing
\* appended), or the exception raised. 'data' in entry raises TypeError on None;
\* entry['data'].get raises AttributeError when data is no table;
\* next(iter({})) raises StopIteration; 'word' in entry_data is a substring
\* test on a string, and entry_data['word'] then raises TypeError.
ParseEntry(entry) ==
    IF entry.kind = "none" THEN "TypeError"
    ELSE IF entry.kind = "str" THEN "none"
    ELSE IF entry.data = "absent" THEN "none"
    ELSE IF entry.data \in {"none", "list"} THEN "AttributeError"
    ELSE IF entry.data = "emptydict" THEN "StopIteration"
    ELSE IF entry.child = "none" THEN "none"
    ELSE IF entry.child = "str" THEN "TypeError"
    ELSE IF EntryKeys \subseteq entry.keys THEN "append"
    ELSE "none"

\* line 157: (entry_data['word'], entry_data['book_title'], entry_data['time']),
\* with the scanned book the entry was made in
Triple(entry) ==
    [word |-> entry.word, book_title |-> entry.book_title, time |-> entry.time,
     owner |-> entry.owner]

\* line 158: except (KeyError, StopIteration, TypeError)
CaughtPerEntry(e) == e \in {"KeyError", "StopIteration", "TypeError"}

\* line 165, a plausible slip: the book filter is left out
ForwardsAll(booktitle, books) == TRUE

\* line 165: if booktitle in books_in_lang
Forwards(booktitle, books) == InList(booktitle, books)

\* a call on the external recorder, as the call log keeps it (owner: the
\* scanned book the forwarded entry was made in, 0 when none)
Call(op, word, language, timestamp, commit, owner) ==
    [op |-> op, word |-> word, language |-> language, source |-> "koreader",
     timestamp |-> timestamp, commit |-> commit, owner |-> owner]

CountLookups(language) == Call("countLookups", <<>>, language, 0, FALSE, 0)
CommitCall == Call("commit", <<>>, <<>>, 0, FALSE, 0)

\* lines 167-175, a plausible slip: each call commits
RecordLookupCommitting(word, language, timestamp, owner) ==
    Call("recordLookup", word, language, timestamp, TRUE, owner)

\* lines 167-175: recordLookup(LookupRecord(word, langcode, "koreader"),
\* timestamp, commit=False)
RecordLookup(word, language, timestamp, owner) ==
    Call("recordLookup", word, language, timestamp, FALSE, owner)

\* lines 144-149, a plausible slip: the else block runs after the handler
AfterOpenFailureFallsThrough == "parse"

\* lines 144-149: the handler logs, adds a label, and getNotes goes on to line 182
AfterOpenFailure == "return"

\* lines 137-141: find and read the history file, split it at the marker
OpenHistory ==
    /\ pc = "hist"
    /\ \/ /\ hist' = "missing"
          /\ pc' = AfterOpenFailure
          /\ UNCHANGED content
       \/ /\ hist' = "read"
          /\ content' \in SeqsUpTo(HistChunks(metadata), MaxHist)
          /\ pc' = "decode"
    /\ UNCHANGED <<ctorVars, exc, scanVars, vocabVars, d, entries, idx, rec_calls,
                   result>>

\* lines 142-143: one iteration of the decoding loop; an exception of
\* slpp.decode is caught by line 144 like a failure to open the file
DecodeChunk ==
    /\ pc = "decode"
    /\ IF Len(d) = Len(content)
       THEN /\ hist' = "loaded"
            /\ pc' = "parse"
            /\ UNCHANGED d
       ELSE IF content[Len(d) + 1].kind = "raise"
       THEN /\ hist' = "undecodable"
            /\ pc' = AfterOpenFailure
            /\ UNCHANGED d
       ELSE /\ d' = Append(d, content[Len(d) + 1])
            /\ UNCHANGED <<hist, pc>>
    /\ UNCHANGED <<ctorVars, exc, scanVars, vocabVars, content, entries, idx,
                   rec_calls, result>>

\* lines 151-160: one iteration of the loop over the decoded entries
ExtractEntry ==
    /\ pc = "parse"
    /\ IF idx = Len(d)
       THEN /\ pc' = "count_before"
            /\ UNCHANGED <<exc, entries, idx>>
       ELSE LET entry == d[idx + 1]
                r == ParseEntry(entry)
            IN  IF r = "append"
                THEN /\ entries' = Append(entries, Triple(entry))
                     /\ idx' = idx + 1
                     /\ UNCHANGED <<pc, exc>>
                ELSE IF r = "none" \/ CaughtPerEntry(r)
                THEN /\ idx' = idx + 1
                     /\ UNCHANGED <<pc, exc, entries>>
                ELSE /\ exc' = r
                     /\ pc' = "raised"
                     /\ UNCHANGED <<entries, idx>>
    /\ UNCHANGED <<ctorVars, scanVars, vocabVars, hist, content, d, rec_calls,
                   result>>

\* lines 162-163
CountBefore ==
    /\ pc = "count_before"
    /\ count' = 0
    /\ rec_calls' = Append(rec_calls, CountLookups(langcode))
    /\ idx' = 0
    /\ pc' = "forward"
    /\ UNCHANGED <<ctorVars, exc, scanVars, bookmap, reading_notes, row, ctx,
                   split_out, sentence, nrows, row_log, note_src, hist, content, d,
                   entries, result>>

\* lines 164-175: one iteration of the forwarding loop
ForwardEntry ==
    /\ pc = "forward"
    /\ IF idx = Len(entries)
       THEN /\ pc' = "commit"
            /\ UNCHANGED <<count, rec_calls, idx>>
       ELSE LET e == entries[idx + 1]
            IN  /\ idx' = idx + 1
                /\ pc' = pc
                /\ IF Forwards(e.book_title, books_in_lang)
                   THEN /\ count' = count + 1
                        /\ rec_calls' =
                              Append(rec_calls,
                                     RecordLookup(e.word, langcode, e.time, e.owner))
                   ELSE UNCHANGED <<count, rec_calls>>
    /\ UNCHANGED <<ctorVars, exc, scanVars, bookmap, reading_notes, row, ctx,
                   split_out, sentence, nrows, row_log, note_src, hist, content, d,
                   entries, result>>

\* line 176
Commit ==
    /\ pc = "commit"
    /\ rec_calls' = Append(rec_calls, CommitCall)
    /\ pc' = "count_after"
    /\ UNCHANGED <<ctorVars, exc, scanVars, vocabVars, hist, content, d, entries,
                   idx, result>>

\* lines 177-180
CountAfter ==
    /\ pc = "count_after"
    /\ rec_calls' = Append(rec_calls, CountLookups(langcode))
    /\ pc' = "return"
    /\ UNCHANGED <<ctorVars, exc, scanVars, vocabVars, hist, content, d, entries,
                   idx, result>>

\* line 182
Return ==
    /\ pc = "return"
    /\ result' = reading_notes
    /\ pc' = "done"
    /\ UNCHANGED <<ctorVars, exc, scanVars, vocabVars, hist, content, d, entries,
                   idx, rec_calls>>

\* a row of table vocabulary made in the first scanned book, and what the
\* splitter returns for its context
BaseRow ==
    [create_time |-> MaxTime, word |-> <<"a">>, title_id |-> 1,
     prev_context |-> <<"b", " ">>, next_context |-> <<" ", "c">>, owner |-> 1]
BaseSplit == <<<<"b", " ", "a">>, <<>>>>

\* the vocabulary step's variables when line 135 is reached: the table held
\* no row, or held BaseRow alone (states SpecVocab reaches at pc = "hist")
VocabDone(withRow) ==
    /\ bookmap = BookMap(TitleTable, books_in_lang)
    /\ IF ~withRow
       THEN /\ count = 0 /\ reading_notes = <<>> /\ row = NoRow /\ ctx = <<>>
            /\ split_out = <<>> /\ sentence = <<>> /\ nrows = 0 /\ row_log = <<>>
            /\ note_src = <<>>
       ELSE /\ row = BaseRow /\ nrows = 1
            /\ IF BaseRow.title_id \in DOMAIN bookmap
               THEN /\ ctx = Context(BaseRow.prev_context, BaseRow.word,
                                     BaseRow.next_context)
                    /\ split_out = BaseSplit
                    /\ sentence = SelectSentence(BaseSplit, BaseRow.word)
                    /\ count = 1
                    /\ reading_notes =
                          <<ReadingNote(BaseRow.word, sentence,
                                        bookmap[BaseRow.title_id],
                                        BaseRow.create_time)>>
                    /\ note_src = <<[n |-> 1, owner |-> BaseRow.owner]>>
                    /\ row_log = <<"note">>
               ELSE /\ ctx = <<>> /\ split_out = <<>> /\ sentence = <<>>
                    /\ count = 0 /\ reading_notes = <<>> /\ note_src = <<>>
                    /\ row_log = <<"not_in_lang">>

InitHist ==
    /\ \E sc \in Scanned : AfterScan(sc)
    /\ pc = "hist"
    /\ \E withRow \in BOOLEAN : VocabDone(withRow)
    /\ HistUnset

NextHist ==
    \/ OpenHistory \/ DecodeChunk \/ ExtractEntry \/ CountBefore \/ ForwardEntry
    \/ Commit \/ CountAfter \/ Return

SpecHist == InitHist /\ [][NextHist]_vars

----------------------------------------------------------------------------
(* Properties *)

\* a non-empty path that exists
ValidPath(p) == Truthy(p) /\ PathExists(p, exists)

\* C8: the constructor raises ValueError exactly when neither the saved
\* reader partition nor the passed path is a non-empty existing path, and
\* when it does nothing has happened: the setting is as it was, the SD card
\* path is not resolved, no warning row is added and no step of getNotes ran.
C8_ValueErrorBeforeAnyEffect ==
    ctor # "new" =>
        /\ (ctor = "ValueError") <=> ~(ValidPath(saved_reader_path) \/ ValidPath(path))
        /\ ctor = "ValueError" =>
              /\ koreader_reader_partition = saved_reader_path
              /\ main_path = Null /\ sdcard_path = Null /\ ~sd_warning
              /\ pc = "new" /\ LocalsUnset

\* C8's case: ValueError although a path was passed, a reader partition was
\* saved and the saved SD card partition exists
C8_Witness ==
    /\ ctor = "ValueError"
    /\ Truthy(path) /\ Truthy(saved_reader_path)
    /\ ValidPath(koreader_sdcard_partition)

\* C10: after a successful construction main_path is the value of the
\* koreader_reader_partition setting; a valid saved value is used and kept
\* whatever path is passed; the setting is overwritten, with the passed path,
\* only when the saved value is not valid and the passed path is.
C10_SavedSettingHasPrecedence ==
    /\ ctor = "ok" =>
          /\ main_path = koreader_reader_partition
          /\ has_saved_config
          /\ IF ValidPath(saved_reader_path)
             THEN koreader_reader_partition = saved_reader_path
             ELSE ValidPath(path) /\ koreader_reader_partition = path
    /\ (ctor # "new" /\ koreader_reader_partition # saved_reader_path) =>
          ~ValidPath(saved_reader_path) /\ ValidPath(path)

\* C10's case: a valid saved partition and a different existing path passed
C10_Witness ==
    /\ ctor = "ok"
    /\ ValidPath(saved_reader_path) /\ ValidPath(path) /\ path # saved_reader_path
    /\ main_path = saved_reader_path

\* the sentences of the splitter's output that contain the word
Matching(out, word) == {i \in 1..Len(out) : Contains(out[i], word)}

MaxOf(S) == CHOOSE i \in S : \A j \in S : j <= i
MinOf(S) == CHOOSE i \in S : \A j \in S : i <= j

\* the Reading Notes emitted for the n-th row read
NotesFrom(n) == {i \in 1..Len(note_src) : note_src[i].n = n}

\* the row just read belongs to an in-language book and has both context halves
RowUsable ==
    /\ nrows >= 1
    /\ row.title_id \in DOMAIN bookmap
    /\ Truthy(row.prev_context) /\ Truthy(row.next_context)

\* the row just read produced exactly one note, the last of the list, with
\* that sentence
OneNoteWith(sentence_) ==
    /\ reading_notes # <<>>
    /\ Len(note_src) = Len(reading_notes)
    /\ NotesFrom(nrows) = {Len(reading_notes)}
    /\ reading_notes[Len(reading_notes)] =
          ReadingNote(row.word, sentence_, bookmap[row.title_id], row.create_time)

ContextAsBuilt ==
    ctx = Strip(row.prev_context) \o <<" ">> \o row.word \o <<" ">>
            \o Strip(row.next_context)

\* C1 as stated: for a usable row, if some sentence of the splitter's output
\* contains the word, exactly one note is emitted and its sentence is the last
\* such sentence; if none does, no note is emitted.
C1_LastMatchAlwaysEmitted ==
    RowUsable =>
        /\ ContextAsBuilt
        /\ LET m == Matching(split_out, row.word)
           IN  IF m # {} THEN OneNoteWith(split_out[MaxOf(m)])
                         ELSE NotesFrom(nrows) = {}

\* C1 as amended: the same, provided the last sentence containing the word is
\* not the empty string; when it is (only the empty word is contained in it),
\* or when no sentence contains the word, no note is emitted.
C1_LastNonEmptyMatchEmitted ==
    RowUsable =>
        /\ ContextAsBuilt
        /\ LET m == Matching(split_out, row.word)
           IN  IF m # {} /\ split_out[MaxOf(m)] # <<>>
               THEN OneNoteWith(split_out[MaxOf(m)])
               ELSE NotesFrom(nrows) = {}

\* C1's case: two different sentences contain the word, and the note of the
\* row carries the later one
C1_Witness ==
    /\ RowUsable
    /\ LET m == Matching(split_out, row.word)
       IN  /\ Cardinality(m) >= 2
           /\ split_out[MinOf(m)] # split_out[MaxOf(m)]
           /\ OneNoteWith(split_out[MaxOf(m)])

\* C2: a row missing either context half (None or empty) yields no note,
\* whatever its word, book and the splitter's output; it raises nothing and
\* the loop goes on to the rows after it.
C2_MissingContextDropsRow ==
    /\ (nrows >= 1 /\ ~(Truthy(row.prev_context) /\ Truthy(row.next_context))) =>
          /\ NotesFrom(nrows) = {}
          /\ exc = "none"
          /\ pc \in {"rows", "hist"}
          /\ row.title_id \in DOMAIN bookmap => row_log[nrows] = "no_context"
    /\ \A n \in 1..Len(row_log) : row_log[n] = "no_context" => NotesFrom(n) = {}

\* C2's case: a row of an in-language book without a following context was
\* dropped, and the row after it produced a note
C2_Witness ==
    /\ row_log = <<"no_context", "note">>
    /\ NotesFrom(1) = {} /\ NotesFrom(2) = {1}

\* the language detected for the scanned book an entry was made in starts
\* with the target code (or the entry's book was not scanned)
OwnerInLanguage(owner) == owner = 0 \/ StartsWith(metadata[owner][1], langcode)

\* C3: no recordLookup call and no returned Reading Note comes from an entry
\* made in a book whose detected language does not start with the target code.
C3_NoOutputFromOutOfLanguageBooks ==
    /\ \A i \in 1..Len(rec_calls) :
          rec_calls[i].op = "recordLookup" => OwnerInLanguage(rec_calls[i].owner)
    /\ pc = "done" =>
          \A i \in 1..Len(result) : OwnerInLanguage(note_src[i].owner)

\* the decoded metadata has no usable doc_props.language and doc_props.title
Unusable(data) ==
    \/ data.kind # "dict"
    \/ data.doc_props # "dict"
    \/ data.language = Null
    \/ data.title = Null

\* C4: when the metadata file last read fails to decode or lacks the fields,
\* getBookMetadata raises nothing and returns the default target language and
\* the file's base name without its extension.
C4_UndecodableMetadataFallsBack ==
    (decoded.kind # "unset" /\ Unusable(decoded)) =>
        /\ exc = "none"
        /\ metadata # <<>>
        /\ metadata[Len(metadata)] =
              <<target_language, FallbackTitle(bookfiles[Len(metadata)])>>

IsRecordLookup(c) == c.op = "recordLookup"

\* the recordLookup calls made so far
Recorded == SelectSeq(rec_calls, IsRecordLookup)

\* the chunk decodes to an entry whose data's first child has the three fields
IsWellFormed(c) ==
    c.kind = "dict" /\ c.data = "dict" /\ c.child = "dict" /\ EntryKeys \subseteq c.keys

\* the triples of the well-formed chunks of a log, in log order
RECURSIVE TriplesOf(_)
TriplesOf(chunks) ==
    IF chunks = <<>> THEN <<>>
    ELSE (IF IsWellFormed(chunks[1])
          THEN <<[word |-> chunks[1].word, book_title |-> chunks[1].book_title,
                  time |-> chunks[1].time, owner |-> chunks[1].owner]>>
          ELSE <<>>) \o TriplesOf(Tail(chunks))

\* one recordLookup(word, langcode, "koreader", time, commit=False) per triple
\* whose book title is in books_in_lang, in order
RECURSIVE ExpectedCalls(_)
ExpectedCalls(es) ==
    IF es = <<>> THEN <<>>
    ELSE (IF \E i \in 1..Len(books_in_lang) : books_in_lang[i] = es[1].book_title
          THEN <<[op |-> "recordLookup", word |-> es[1].word, language |-> langcode,
                  source |-> "koreader", timestamp |-> es[1].time,
                  commit |-> FALSE, owner |-> es[1].owner]>>
          ELSE <<>>) \o ExpectedCalls(Tail(es))

\* C5: whatever entries of the log fail to decode or lack the expected shape,
\* getNotes ends without an exception and every well-formed entry of the log
\* whose book is in the language has been forwarded.
C5_MalformedEntriesSkippedIndividually ==
    (pc \in {"done", "raised"} /\ hist \in {"loaded", "undecodable"}) =>
        /\ exc = "none"
        /\ Recorded = ExpectedCalls(TriplesOf(content))

\* C6: when the history file cannot be found or opened, no call is made on
\* the recorder, nothing is raised, and getNotes returns the notes built from
\* the vocabulary database.
C6_MissingHistorySkipsStep ==
    hist = "missing" =>
        /\ rec_calls = <<>>
        /\ exc = "none"
        /\ pc \in {"return", "done"}
        /\ pc = "done" => result = reading_notes /\ Len(result) = Len(note_src)

C6_Witness == hist = "missing" /\ pc = "done" /\ result # <<>>

\* line 162 has been reached and passed
Forwarding == pc \in {"forward", "commit", "count_after"}
Forwarded == pc \in {"return", "done"} /\ hist = "loaded"

\* C7: once line 162 is reached the calls on the recorder are countLookups,
\* then the recordLookup calls, each with commit=False, then one commit, then
\* countLookups; no recordLookup follows the commit; a run that does not reach
\* line 162 makes no call.
C7_RecordsThenOneCommit ==
    LET n == Len(rec_calls)
        commits == {i \in 1..n : rec_calls[i].op = "commit"}
    IN  /\ \A i \in 1..n :
              rec_calls[i].op = "recordLookup" =>
                  /\ rec_calls[i].commit = FALSE
                  /\ \A j \in commits : i < j
        /\ Cardinality(commits) <= 1
        /\ (Forwarding \/ Forwarded) => n >= 1 /\ rec_calls[1].op = "countLookups"
        /\ pc = "forward" => \A i \in 2..n : rec_calls[i].op = "recordLookup"
        /\ Forwarded =>
              /\ n >= 3
              /\ rec_calls[n].op = "countLookups"
              /\ commits = {n - 1}
              /\ \A i \in 2..(n - 2) : rec_calls[i].op = "recordLookup"
        /\ ~(Forwarding \/ Forwarded) => n = 0

\* C7's case: a finished run with two recordLookup calls before its commit
C7_Witness == pc = "done" /\ Len(rec_calls) = 5 /\ Len(Recorded) = 2

\* C9: the entries extracted are the triples of the log's well-formed chunks;
\* the recordLookup calls are, in log order, one per extracted triple whose
\* book title is in books_in_lang, with the target language, source
\* "koreader" and the entry's timestamp; count is their number; a log without
\* a marker gives no entry, no call and no exception.
C9_OneRecordPerInLanguageTriple ==
    /\ pc = "forward" =>
          /\ Recorded = ExpectedCalls(SubSeq(entries, 1, idx))
          /\ count = Len(Recorded)
    /\ (pc \in {"commit", "count_after"} \/ Forwarded) =>
          /\ Recorded = ExpectedCalls(entries)
          /\ count = Len(Recorded)
    /\ (pc = "count_before" \/ Forwarding \/ Forwarded) => entries = TriplesOf(content)
    /\ (hist \in {"read", "loaded"} /\ content = <<>>) =>
          entries = <<>> /\ Recorded = <<>> /\ exc = "none"

\* C9's case: of two extracted triples one is in the language and forwarded
C9_Witness ==
    /\ pc = "done" /\ hist = "loaded"
    /\ Len(entries) = 2 /\ Len(Recorded) = 1 /\ count = 1

====
